---- MODULE Spec2Model ----
(***************************************************************************)
(* The OAuth token lifecycle and authenticated-request layer of the xero   *)
(* CLI: the credential store (src/src/config.js), the token and request    *)
(* functions (src/src/api.js) and the `auth login` callback listener and   *)
(* the commands that drive them (the CLI entry file, src/unnamed/part_000).*)
(*                                                                         *)
(* One step of the model is one turn of the JavaScript event loop: the     *)
(* code that runs from one completed I/O event (an incoming HTTP request,  *)
(* the response of an outbound call) up to the next `await` of an I/O.     *)
(***************************************************************************)
EXTENDS Integers, Sequences, FiniteSets, TLC

\* ------------------------------------------------------------------ bounds
MaxTicks == 1        \* clock advances in one run
MaxCommands == 1     \* CLI invocations in one run
MaxRequests == 2     \* HTTP requests reaching the callback listener per login

\* ------------------------------------------------------- program constants
ValidityMarginMs == 60000
MsPerSecond == 1000

\* ------------------------------------------------------------- JS values
\* A string-valued field that is absent from a JSON body (JS undefined), and
\* a query parameter that is absent (URLSearchParams.get gives null).
Undefined == "<undefined>"
Null == "<null>"

\* JS truthiness of a string-or-undefined-or-null value.
Truthy(v) == v \notin {Undefined, Null, ""}

\* JS numbers: an integer or NaN.
Num(n) == [nan |-> FALSE, v |-> n]
NaN == [nan |-> TRUE, v |-> 0]
JsAdd(a, b) == IF a.nan \/ b.nan THEN NaN ELSE Num(a.v + b.v)
JsMul(a, b) == IF a.nan \/ b.nan THEN NaN ELSE Num(a.v * b.v)
JsGt(a, b) == ~a.nan /\ ~b.nan /\ a.v > b.v
JsSub(a, b) == IF a.nan \/ b.nan THEN NaN ELSE Num(a.v - b.v)
\* JS truthiness of a number.
TruthyNum(a) == ~a.nan /\ a.v # 0

\* ------------------------------------------------------------ input sets
ClientIds == {"cid"}
ClientSecrets == {"sec"}
TenantIds == {"T1", "T2"}
AccessTokens == {"AT2"}
RefreshTokens == {"RT2"}
\* expires_in of a token response, as the number `expires_in * 1000` sees
\* (NaN when the field is absent).
ExpiresIn == {NaN, Num(61)}
ClockSteps == {MsPerSecond}

\* A 2xx body of the token endpoint.
TokenResponses ==
  [access_token : AccessTokens \cup {Undefined},
   refresh_token : RefreshTokens \cup {Undefined},
   expires_in : ExpiresIn]

\* Status of the response to an outbound HTTP call.
HttpStatuses == {200, 401, 403, 404, 429, 500}
\* The fields of an error body that handleApiError looks at.
Bodies ==
  [Detail : {Undefined, "d"}, Message : {Undefined, "m"},
   message : {Undefined, "e"}]
NoBody == [Detail |-> Undefined, Message |-> Undefined, message |-> Undefined]
\* The errors axios rejects a call with: a response with a non-2xx status
\* (`response` is its status, 0 when there is none), a request that got no
\* response, or a failure before any request was sent.
TransportErrors ==
  [response : HttpStatuses \ {200}, request : {TRUE}, data : Bodies]
  \cup [response : {0}, request : BOOLEAN, data : {NoBody}]
\* The outcomes GET /connections is given during a login.
ConnectionStatuses == {200, 401}
\* Bodies of GET /connections: the tenantIds of the returned list, in order.
ConnectionLists == {<<>>, <<"T1">>, <<"T2", "T1">>}

\* Incoming requests of the callback listener.
Paths == {"/callback", "/other"}
Codes == {Null, "abc123"}
Errors == {Null, "access_denied"}

VARIABLES
  store,      \* the persisted configuration (conf store)
  now,        \* Date.now()
  ticks,      \* clock advances so far
  ncmds,      \* CLI invocations started so far
  cmd,        \* the command of the running process, "none" between processes
  exitCode,   \* exit status of the process (-1 while it runs)
  tasks,      \* the async call chains of the running process
  server,     \* the login listener: "none", "listening", "closed"
  promise,    \* the login promise: "none", "pending", "resolved", "rejected"
  loginError, \* the error the login promise was rejected with
  nreq,       \* HTTP requests the listener has received in this login
  lastGrant,  \* the last token-endpoint response processed, and its effect
  lastError   \* the last failed API call, and the error raised for it

vars == <<store, now, ticks, ncmds, cmd, exitCode, tasks, server, promise,
          loginError, nreq, lastGrant, lastError>>

TaskIds == 1..MaxRequests

\* ------------------------------------------------------------ config.js
DefaultStore ==
  [clientId |-> "", clientSecret |-> "", accessToken |-> "",
   refreshToken |-> "", tokenExpiry |-> Num(0), tenantId |-> ""]

\* conf's set(): throws on an undefined value and on a value the schema
\* rejects.  Whether NaN passes `type: 'number'` depends on the validator's
\* version, so it is the caller's choice `nanOk`.
setConfig(st, key, value, nanOk) ==
  IF key = "tokenExpiry"
  THEN IF value.nan /\ ~nanOk
       THEN [ok |-> FALSE, store |-> st]
       ELSE [ok |-> TRUE, store |-> [st EXCEPT !.tokenExpiry = value]]
  ELSE IF value = Undefined
       THEN [ok |-> FALSE, store |-> st]
       ELSE [ok |-> TRUE, store |-> [st EXCEPT ![key] = value]]

isConfigured(st) == st.clientId # "" /\ st.clientSecret # ""

\* A faulty variant: the margin compared with >= instead of >.
hasValidTokenInclusive(st, t) ==
  IF st.accessToken = "" THEN FALSE
  ELSE JsGt(JsAdd(st.tokenExpiry, Num(1)), JsAdd(Num(t), Num(ValidityMarginMs)))

\* hasValidToken: a non-empty token that expires more than 60 s from now.
hasValidToken(st, t) ==
  IF st.accessToken = "" THEN FALSE
  ELSE JsGt(st.tokenExpiry, JsAdd(Num(t), Num(ValidityMarginMs)))

\* --------------------------------------------------------------- api.js
\* The Basic credentials of a token-endpoint request, before any is sent.
NoBasic == <<Undefined, Undefined>>

\* One async call chain: a resource command's apiRequest ("api"), the
\* getConnections of `auth status` ("status") or one invocation of the login
\* listener's request handler ("callback").  The fields from `pre` on record
\* what the chain did, for the properties below.
IdleTask ==
  [kind |-> "none", pc |-> "idle", path |-> "", reqCode |-> Null,
   reqError |-> Null, code |-> Null, token |-> Undefined,
   pre |-> DefaultStore, valid |-> FALSE, refreshCalls |-> 0,
   tokenReqs |-> 0, connReqs |-> 0, resReqs |-> 0, bearer |-> Undefined,
   tenantHdr |-> "", refreshed |-> Undefined, exchanged |-> FALSE,
   result |-> "none", http |-> 0, settled |-> FALSE, startedAt |-> 0,
   basic |-> NoBasic, connections |-> <<>>, shown |-> "none"]

NewTask(kind) == [IdleTask EXCEPT !.kind = kind, !.pc = "start"]

\* `throw new Error(...)` out of the chain.
Throw(tk, err) == [tk EXCEPT !.pc = "done", !.result = err]

\* A faulty variant: an absent refresh_token clears the stored one.
refreshGrantWritesClear(st, resp, t, nanOk) ==
  LET w1 == setConfig(st, "accessToken", resp.access_token, nanOk)
      w2 == setConfig(w1.store, "refreshToken",
                      IF Truthy(resp.refresh_token) THEN resp.refresh_token
                      ELSE "", nanOk)
      w3 == setConfig(w2.store, "tokenExpiry",
                      JsAdd(Num(t), JsMul(resp.expires_in, Num(MsPerSecond))),
                      nanOk)
  IN  IF ~w1.ok THEN w1 ELSE IF ~w2.ok THEN w2 ELSE w3

\* refreshAccessToken, lines 33-36: the writes of a 2xx refresh response, in
\* order, stopping at the first write that throws.
refreshGrantWrites(st, resp, t, nanOk) ==
  LET w1 == setConfig(st, "accessToken", resp.access_token, nanOk)
      w2 == IF Truthy(resp.refresh_token)
            THEN setConfig(w1.store, "refreshToken", resp.refresh_token, nanOk)
            ELSE [ok |-> TRUE, store |-> w1.store]
      w3 == setConfig(w2.store, "tokenExpiry",
                      JsAdd(Num(t), JsMul(resp.expires_in, Num(MsPerSecond))),
                      nanOk)
  IN  IF ~w1.ok THEN w1 ELSE IF ~w2.ok THEN w2 ELSE w3

\* A faulty variant: the exchange keeps the old refresh token as a refresh does.
exchangeGrantWritesKeep(st, resp, t, nanOk) ==
  refreshGrantWrites(st, resp, t, nanOk)

\* A faulty variant: a new grant also forgets the organisation chosen before.
exchangeGrantWritesDropTenant(st, resp, t, nanOk) ==
  LET w1 == setConfig(st, "accessToken", resp.access_token, nanOk)
      w2 == setConfig(w1.store, "refreshToken", resp.refresh_token, nanOk)
      w3 == setConfig(w2.store, "tokenExpiry",
                      JsAdd(Num(t), JsMul(resp.expires_in, Num(MsPerSecond))),
                      nanOk)
      w == IF ~w1.ok THEN w1 ELSE IF ~w2.ok THEN w2 ELSE w3
  IN  [ok |-> w.ok, store |-> [w.store EXCEPT !.tenantId = ""]]

\* exchangeCodeForTokens, lines 82-85: the writes of a 2xx exchange response.
exchangeGrantWrites(st, resp, t, nanOk) ==
  LET w1 == setConfig(st, "accessToken", resp.access_token, nanOk)
      w2 == setConfig(w1.store, "refreshToken", resp.refresh_token, nanOk)
      w3 == setConfig(w2.store, "tokenExpiry",
                      JsAdd(Num(t), JsMul(resp.expires_in, Num(MsPerSecond))),
                      nanOk)
  IN  IF ~w1.ok THEN w1 ELSE IF ~w2.ok THEN w2 ELSE w3

\* A faulty variant: the refresh grant is posted whatever refreshToken holds.
refreshAccessTokenUnchecked(tk, st) ==
  [tk EXCEPT !.refreshCalls = @ + 1, !.tokenReqs = @ + 1,
             !.basic = <<st.clientId, st.clientSecret>>,
             !.pc = "awaitRefresh"]

\* A faulty variant: the missing refresh token is noticed after the POST.
refreshAccessTokenLateCheck(tk, st) ==
  IF ~Truthy(st.refreshToken)
  THEN Throw([tk EXCEPT !.refreshCalls = @ + 1, !.tokenReqs = @ + 1,
                        !.basic = <<st.clientId, st.clientSecret>>],
             "NoRefreshToken")
  ELSE [tk EXCEPT !.refreshCalls = @ + 1, !.tokenReqs = @ + 1,
                  !.basic = <<st.clientId, st.clientSecret>>,
                  !.pc = "awaitRefresh"]

\* refreshAccessToken, lines 11-31: up to the POST to the token endpoint.
refreshAccessToken(tk, st) ==
  IF ~Truthy(st.refreshToken)
  THEN Throw([tk EXCEPT !.refreshCalls = @ + 1], "NoRefreshToken")
  ELSE [tk EXCEPT !.refreshCalls = @ + 1, !.tokenReqs = @ + 1,
                  !.basic = <<st.clientId, st.clientSecret>>,
                  !.pc = "awaitRefresh"]

\* A faulty variant: any cached token is used, whatever its expiry.
getAccessTokenCached(tk, st, t) ==
  IF st.accessToken # "" THEN [tk EXCEPT !.pc = "haveToken", !.token = st.accessToken]
  ELSE refreshAccessToken(tk, st)

\* getAccessToken: the cached token when it is valid, else a refresh.
getAccessToken(tk, st, t) ==
  IF hasValidToken(st, t)
  THEN [tk EXCEPT !.pc = "haveToken", !.token = st.accessToken]
  ELSE refreshAccessToken(tk, st)

\* A faulty variant: the request is sent without the tenant check.
apiRequestSendUnchecked(tk, st) ==
  [tk EXCEPT !.pc = "awaitResource", !.bearer = tk.token,
             !.tenantHdr = st.tenantId, !.resReqs = @ + 1]

\* apiRequest, lines 118-139, once the token is there: the tenant check and
\* the resource request.
apiRequestSend(tk, st) ==
  IF ~Truthy(st.tenantId) THEN Throw(tk, "NoTenant")
  ELSE [tk EXCEPT !.pc = "awaitResource", !.bearer = tk.token,
                  !.tenantHdr = st.tenantId, !.resReqs = @ + 1]

\* The "Token Expiry" line of `config show` (part_000 lines 149-153): absent
\* when tokenExpiry is falsy, else the expiry as valid or as expired.
tokenExpiryLine(st, t) ==
  IF ~TruthyNum(st.tokenExpiry) THEN "none"
  ELSE IF JsGt(st.tokenExpiry, Num(t)) THEN "valid" ELSE "expired"

\* getConnections, lines 100-106, once the token is there.
getConnectionsSend(tk) ==
  [tk EXCEPT !.pc = "awaitConnections", !.bearer = tk.token,
             !.connReqs = @ + 1]

\* The code after `const token = await getAccessToken()` of either caller.
afterToken(tk, st) ==
  IF tk.pc # "haveToken" THEN tk
  ELSE IF tk.kind = "api" THEN apiRequestSend(tk, st)
  ELSE getConnectionsSend(tk)

apiRequest(tk, st, t) ==
  afterToken(getAccessToken([tk EXCEPT !.valid = hasValidToken(st, t)], st, t), st)

getConnections(tk, st, t) ==
  afterToken(getAccessToken(tk, st, t), st)

\* exchangeCodeForTokens, lines 60-80: up to the POST to the token endpoint.
exchangeCodeForTokens(tk, st, code) ==
  IF ~(Truthy(st.clientId) /\ Truthy(st.clientSecret))
  THEN Throw(tk, "NotConfigured")
  ELSE [tk EXCEPT !.pc = "awaitExchange", !.code = code, !.tokenReqs = @ + 1,
                  !.basic = <<st.clientId, st.clientSecret>>]

\* An error as the command sees it: its class, the status it carries and the
\* text after the fixed part of its message.
Raise(tag, status, text) == [tag |-> tag, status |-> status, text |-> text]

\* `data?.Detail || data?.Message || data?.message || JSON.stringify(data)`
BodyMessage(data) ==
  IF Truthy(data.Detail) THEN data.Detail
  ELSE IF Truthy(data.Message) THEN data.Message
  ELSE IF Truthy(data.message) THEN data.message
  ELSE "<json>"

\* A faulty variant: a 429 is not told apart from the other statuses.
handleApiErrorNo429(error) ==
  IF error.response # 0
  THEN CASE error.response = 401 ->
              Raise("AuthenticationFailed", 0, "Run: xero auth login")
         [] error.response = 403 -> Raise("AccessForbidden", 0, "")
         [] error.response = 404 -> Raise("ResourceNotFound", 0, "")
         [] OTHER -> Raise("ApiError", error.response, BodyMessage(error.data))
  ELSE IF error.request THEN Raise("NoResponse", 0, "")
  ELSE Raise("Rethrown", 0, "")

\* handleApiError: the error thrown for a failed request.  It has no path
\* that returns.
handleApiError(error) ==
  IF error.response # 0
  THEN CASE error.response = 401 ->
              Raise("AuthenticationFailed", 0, "Run: xero auth login")
         [] error.response = 403 -> Raise("AccessForbidden", 0, "")
         [] error.response = 404 -> Raise("ResourceNotFound", 0, "")
         [] error.response = 429 ->
              Raise("RateLimitExceeded", 0, "Please wait before retrying.")
         [] OTHER -> Raise("ApiError", error.response, BodyMessage(error.data))
  ELSE IF error.request THEN Raise("NoResponse", 0, "")
  ELSE Raise("Rethrown", 0, "")

\* ------------------------------------------------------------ the model
\* lastGrant describes the step just taken when that step processed a 2xx
\* answer of the token endpoint: the grant, the store before it, the body and
\* whether every write went through.  Any other step resets it.
NoGrant ==
  [kind |-> "none", ok |-> FALSE, pre |-> DefaultStore,
   resp |-> [access_token |-> Undefined, refresh_token |-> Undefined,
             expires_in |-> NaN]]

NoTasks == [i \in TaskIds |-> IdleTask]

\* lastError describes the step just taken when that step was the failure of
\* a resource or connections call.  Any other step resets it.
NoApiError ==
  [task |-> 0,
   error |-> [response |-> 0, request |-> FALSE, data |-> NoBody],
   thrown |-> Raise("none", 0, "")]

NoError == [tag |-> "none", detail |-> ""]

\* The store a process finds is what earlier processes left: nothing, the
\* client credentials and a tenant from `config set`, and the tokens of a
\* login at time 0 whose expires_in was 60 or 61 seconds, or whose exchange
\* stopped after its first write.
InitTokens ==
  {[accessToken |-> "", refreshToken |-> "", tokenExpiry |-> Num(0)],
   [accessToken |-> "AT1", refreshToken |-> "", tokenExpiry |-> Num(0)]}
  \cup [accessToken : {"AT1"}, refreshToken : {"RT1"},
        tokenExpiry : {Num(60 * MsPerSecond), Num(61 * MsPerSecond)}]

InitStores ==
  {[clientId |-> c.id, clientSecret |-> c.sec, accessToken |-> k.accessToken,
    refreshToken |-> k.refreshToken, tokenExpiry |-> k.tokenExpiry,
    tenantId |-> tid] :
     c \in [id : ClientIds \cup {""}, sec : ClientSecrets \cup {""}],
     k \in InitTokens, tid \in {"", "T1"}}

Init ==
  /\ store \in {st \in InitStores :
                  st.accessToken # "" => isConfigured(st)}
  /\ now = 0
  /\ ticks = 0
  /\ ncmds = 0
  /\ cmd = "none"
  /\ exitCode = -1
  /\ tasks = NoTasks
  /\ server = "none"
  /\ promise = "none"
  /\ loginError = NoError
  /\ nreq = 0
  /\ lastGrant = NoGrant
  /\ lastError = NoApiError

\* Time passes.
Tick ==
  /\ ticks < MaxTicks
  /\ \E d \in ClockSteps : now' = now + d
  /\ ticks' = ticks + 1
  /\ lastGrant' = NoGrant
  /\ lastError' = NoApiError
  /\ UNCHANGED <<store, ncmds, cmd, exitCode, tasks, server, promise,
                 loginError, nreq>>

\* A new process starts: the previous one's call chains are gone.
StartProcess ==
  /\ cmd = "none"
  /\ ncmds < MaxCommands
  /\ ncmds' = ncmds + 1
  /\ nreq' = 0
  /\ lastGrant' = NoGrant
  /\ lastError' = NoApiError
  /\ loginError' = NoError

\* `config set` (part_000 lines 116-132): an option that is absent or empty
\* is skipped.
ConfigSet ==
  /\ StartProcess
  /\ \E cid \in ClientIds \cup {""}, sec \in ClientSecrets \cup {""},
        tid \in TenantIds \cup {""} :
       store' = [store EXCEPT
                   !.clientId = IF cid # "" THEN cid ELSE @,
                   !.clientSecret = IF sec # "" THEN sec ELSE @,
                   !.tenantId = IF tid # "" THEN tid ELSE @]
  /\ cmd' = "none"
  /\ exitCode' = 0
  /\ tasks' = NoTasks
  /\ server' = "none"
  /\ promise' = "none"
  /\ UNCHANGED <<now, ticks>>

\* `config show` (part_000 lines 137-155): prints the store and ends.
ConfigShow ==
  /\ StartProcess
  /\ tasks' = [NoTasks EXCEPT ![1] =
                 [NewTask("show") EXCEPT
                    !.pc = "done", !.result = "ok", !.pre = store,
                    !.startedAt = now,
                    !.shown = tokenExpiryLine(store, now)]]
  /\ cmd' = "none"
  /\ exitCode' = 0
  /\ server' = "none"
  /\ promise' = "none"
  /\ UNCHANGED <<store, now, ticks>>

\* The call chains of a process that ends while they wait for a response.
killInFlight(ts) ==
  [j \in TaskIds |->
     IF ts[j].pc \in {"idle", "done"} THEN ts[j]
     ELSE [ts[j] EXCEPT !.pc = "killed"]]

\* A faulty variant: a login handler that fails answers the browser and
\* leaves the listener open and the login promise pending.
SettleNoCatch(i, tk) ==
  IF tk.pc # "done"
  THEN /\ tasks' = [tasks EXCEPT ![i] = tk]
       /\ UNCHANGED <<cmd, exitCode, server, promise, loginError>>
  ELSE IF tk.kind \in {"api", "status"}
  THEN /\ tasks' = [tasks EXCEPT ![i] = tk]
       /\ cmd' = "none"
       /\ exitCode' = IF tk.result = "ok" THEN 0 ELSE 1
       /\ UNCHANGED <<server, promise, loginError>>
  ELSE IF tk.kind = "other" \/ tk.result # "ok"
  THEN /\ tasks' = [tasks EXCEPT ![i] = tk]
       /\ UNCHANGED <<cmd, exitCode, server, promise, loginError>>
  ELSE /\ tasks' = [tasks EXCEPT ![i] =
                      [tk EXCEPT !.http = 200,
                                 !.settled = (promise = "pending")]]
       /\ server' = "closed"
       /\ promise' = IF promise # "pending" THEN promise ELSE "resolved"
       /\ UNCHANGED <<cmd, exitCode, loginError>>

\* What an async call chain's step does to the process: a chain that goes on
\* just updates its record; a finished apiRequest ends the resource command
\* at its try/catch (part_000 lines 296-318), and a finished getConnections
\* ends `auth status` at its own (lines 264-279); a 404 changes nothing; a
\* finished callback handler answers the browser, closes the server and
\* settles the login promise if it is still pending (lines 238-246).  A
\* rejection of the login promise is handled by nothing (program.parse is
\* not awaited, line 637): the runtime ends the process with status 1 at
\* the end of the same turn, with the other handlers in flight.
Settle(i, tk) ==
  IF tk.pc # "done"
  THEN /\ tasks' = [tasks EXCEPT ![i] = tk]
       /\ UNCHANGED <<cmd, exitCode, server, promise, loginError>>
  ELSE IF tk.kind \in {"api", "status"}
  THEN /\ tasks' = [tasks EXCEPT ![i] = tk]
       /\ cmd' = "none"
       /\ exitCode' = IF tk.result = "ok" THEN 0 ELSE 1
       /\ UNCHANGED <<server, promise, loginError>>
  ELSE IF tk.kind = "other"
  THEN /\ tasks' = [tasks EXCEPT ![i] = tk]
       /\ UNCHANGED <<cmd, exitCode, server, promise, loginError>>
  ELSE LET rejects == promise = "pending" /\ tk.result # "ok"
            ts == [tasks EXCEPT ![i] =
                     [tk EXCEPT !.http = IF tk.result = "ok" THEN 200 ELSE 500,
                                !.settled = (promise = "pending")]]
       IN  /\ tasks' = IF rejects THEN killInFlight(ts) ELSE ts
           /\ server' = "closed"
           /\ promise' = IF promise # "pending" THEN promise
                         ELSE IF tk.result = "ok" THEN "resolved"
                         ELSE "rejected"
           /\ loginError' = IF rejects THEN [tag |-> tk.result, detail |-> ""]
                            ELSE loginError
           /\ cmd' = IF rejects THEN "none" ELSE cmd
           /\ exitCode' = IF rejects THEN 1 ELSE exitCode

\* A resource command (invoices list, ...): requireAuth, then apiRequest up
\* to its first outbound call.
ResourceCommand ==
  /\ StartProcess
  /\ server' = "none"
  /\ promise' = "none"
  /\ IF ~isConfigured(store)
     THEN /\ cmd' = "none"
          /\ exitCode' = 1
          /\ tasks' = NoTasks
     ELSE LET tk == apiRequest([NewTask("api") EXCEPT !.pre = store, !.startedAt = now],
                              store, now)
          IN  /\ tasks' = [NoTasks EXCEPT ![1] = tk]
              /\ cmd' = IF tk.pc = "done" THEN "none" ELSE "resource"
              /\ exitCode' = IF tk.pc = "done" THEN 1 ELSE -1
  /\ UNCHANGED <<store, now, ticks>>

\* `auth status` (part_000 lines 259-280): getConnections up to its first
\* outbound call, with no check of the client credentials before it.
StatusCommand ==
  /\ StartProcess
  /\ server' = "none"
  /\ promise' = "none"
  /\ LET tk == getConnections([NewTask("status") EXCEPT !.pre = store,
                                                        !.startedAt = now,
                                  !.valid = hasValidToken(store, now)],
                              store, now)
     IN  /\ tasks' = [NoTasks EXCEPT ![1] = tk]
         /\ cmd' = IF tk.pc = "done" THEN "none" ELSE "status"
         /\ exitCode' = IF tk.pc = "done" THEN 1 ELSE -1
  /\ UNCHANGED <<store, now, ticks>>

\* The token endpoint answers a refresh grant (refreshAccessToken lines
\* 32-42), and the caller goes on with the new token.
RefreshResponse(i) ==
  /\ tasks[i].pc = "awaitRefresh"
  /\ \/ /\ Settle(i, Throw(tasks[i], "TokenRefreshFailed"))
        /\ lastGrant' = NoGrant
        /\ lastError' = NoApiError
        /\ UNCHANGED store
     \/ \E resp \in TokenResponses :
        \E nanOk \in IF resp.expires_in.nan THEN BOOLEAN ELSE {TRUE} :
          LET w == refreshGrantWrites(store, resp, now, nanOk)
              tk == IF w.ok
                    THEN afterToken([tasks[i] EXCEPT !.pc = "haveToken",
                                       !.token = resp.access_token,
                                       !.refreshed = resp.access_token],
                                    w.store)
                    ELSE Throw(tasks[i], "TokenRefreshFailed")
          IN  /\ store' = w.store
              /\ lastGrant' = [kind |-> "refresh", ok |-> w.ok,
                               pre |-> store, resp |-> resp]
              /\ lastError' = NoApiError
              /\ Settle(i, tk)
  /\ UNCHANGED <<now, ticks, ncmds, nreq>>

\* A faulty variant: a 401 on a call that used the cached token is answered
\* with a refresh and a second resource request.
ResourceResponseRetry(i) ==
  /\ tasks[i].pc = "awaitResource"
  /\ \/ /\ Settle(i, [tasks[i] EXCEPT !.pc = "done", !.result = "ok"])
        /\ lastError' = NoApiError
     \/ \E error \in TransportErrors :
          LET thrown == handleApiError(error)
              tk == IF error.response = 401 /\ tasks[i].refreshCalls = 0
                    THEN refreshAccessToken(tasks[i], store)
                    ELSE Throw(tasks[i], thrown.tag)
          IN  /\ Settle(i, tk)
              /\ lastError' = NoApiError
  /\ lastGrant' = NoGrant
  /\ UNCHANGED <<store, now, ticks, ncmds, nreq>>

\* The resource API answers (apiRequest lines 139-143).
ResourceResponse(i) ==
  /\ tasks[i].pc = "awaitResource"
  /\ \/ /\ Settle(i, [tasks[i] EXCEPT !.pc = "done", !.result = "ok"])
        /\ lastError' = NoApiError
     \/ \E error \in TransportErrors :
          LET thrown == handleApiError(error)
          IN  /\ Settle(i, Throw(tasks[i], thrown.tag))
              /\ lastError' = [task |-> i, error |-> error, thrown |-> thrown]
  /\ lastGrant' = NoGrant
  /\ UNCHANGED <<store, now, ticks, ncmds, nreq>>

\* `auth login` (part_000 lines 167-256) up to `await new Promise`: the
\* server is created and bound, or the bind fails and the 'error' event
\* rejects the promise.
LoginCommand ==
  /\ StartProcess
  /\ tasks' = NoTasks
  /\ IF ~isConfigured(store)
     THEN /\ cmd' = "none"
          /\ exitCode' = 1
          /\ server' = "none"
          /\ promise' = "none"
     ELSE /\ cmd' = "login"
          /\ exitCode' = -1
          /\ server' = "listening"
          /\ promise' = "pending"
  /\ UNCHANGED <<store, now, ticks>>

\* server.on('error', reject): the port cannot be bound, and the rejection
\* ends the process.
LoginBindError ==
  /\ cmd = "login"
  /\ server = "listening"
  /\ nreq = 0
  /\ promise = "pending"
  /\ server' = "error"
  /\ promise' = "rejected"
  /\ loginError' = [tag |-> "ListenerError", detail |-> ""]
  /\ cmd' = "none"
  /\ exitCode' = 1
  /\ lastGrant' = NoGrant
  /\ lastError' = NoApiError
  /\ UNCHANGED <<store, now, ticks, ncmds, tasks, nreq>>

\* reject(...) preceded by server.close(), as the handler's early returns
\* do; a rejection that takes effect ends the process.
CloseAndReject(err) ==
  /\ server' = "closed"
  /\ promise' = IF promise = "pending" THEN "rejected" ELSE promise
  /\ loginError' = IF promise = "pending" THEN err ELSE loginError
  /\ cmd' = IF promise = "pending" THEN "none" ELSE cmd
  /\ exitCode' = IF promise = "pending" THEN 1 ELSE exitCode

\* The /callback branch of the request handler (part_000 lines 195-217) up
\* to its first await: the two early failures, or the start of the exchange.
handleCallback(tk, st, code, error) ==
  IF Truthy(error) THEN [Throw(tk, "OAuthError") EXCEPT !.http = 400]
  ELSE IF ~Truthy(code) THEN [Throw(tk, "NoCode") EXCEPT !.http = 400]
  ELSE exchangeCodeForTokens(tk, st, code)

\* A faulty variant: every path is treated as /callback.
handleRequestAnyPath(tk, st, path, code, error) ==
  handleCallback([tk EXCEPT !.reqCode = code, !.reqError = error],
                 st, code, error)

\* A faulty variant: `code` is looked at before `error`.
handleRequestCodeFirst(tk, st, path, code, error) ==
  IF path # "/callback"
  THEN [tk EXCEPT !.kind = "other", !.pc = "done", !.http = 404]
  ELSE LET cb == [tk EXCEPT !.reqCode = code, !.reqError = error]
       IN  IF Truthy(code) THEN exchangeCodeForTokens(cb, st, code)
           ELSE handleCallback(cb, st, code, error)

\* The request handler of the login listener (part_000 lines 192-251) up to
\* its first await: a 404 for any path but /callback, else the branch above.
handleRequest(tk, st, path, code, error) ==
  IF path # "/callback"
  THEN [tk EXCEPT !.kind = "other", !.pc = "done", !.http = 404]
  ELSE handleCallback([tk EXCEPT !.reqCode = code, !.reqError = error],
                      st, code, error)

\* The listener receives an HTTP request.
CallbackRequest ==
  /\ cmd = "login"
  /\ server = "listening"
  /\ nreq < MaxRequests
  /\ nreq' = nreq + 1
  /\ \E path \in Paths, code \in Codes, error \in Errors :
       LET i == nreq + 1
           tk == handleRequest([NewTask("callback") EXCEPT !.path = path],
                               store, path, code, error)
       IN  IF tk.kind = "callback" /\ tk.pc = "done" /\ tk.http = 400
           THEN /\ tasks' =
                     LET ts == [tasks EXCEPT ![i] =
                                  [tk EXCEPT !.settled = (promise = "pending")]]
                     IN  IF promise = "pending" THEN killInFlight(ts) ELSE ts
                /\ CloseAndReject([tag |-> tk.result,
                                   detail |-> IF tk.result = "OAuthError"
                                              THEN error ELSE ""])
           ELSE Settle(i, tk)
  /\ lastGrant' = NoGrant
  /\ lastError' = NoApiError
  /\ UNCHANGED <<store, now, ticks, ncmds>>

\* A faulty variant: a failed exchange is ignored and the handler goes on to
\* getConnections with whatever token is stored.
ExchangeResponseSwallow(i) ==
  /\ cmd = "login"
  /\ tasks[i].pc = "awaitExchange"
  /\ \/ /\ Settle(i, getConnections(tasks[i], store, now))
        /\ UNCHANGED store
     \/ \E resp \in TokenResponses :
        \E nanOk \in IF resp.expires_in.nan THEN BOOLEAN ELSE {TRUE} :
          LET w == exchangeGrantWrites(store, resp, now, nanOk)
          IN  /\ store' = w.store
              /\ Settle(i, getConnections(
                             [tasks[i] EXCEPT !.exchanged = w.ok],
                             w.store, now))
  /\ lastGrant' = NoGrant
  /\ lastError' = NoApiError
  /\ UNCHANGED <<now, ticks, ncmds, nreq>>

\* The token endpoint answers the authorization-code grant
\* (exchangeCodeForTokens lines 81-91); on success the handler goes on to
\* getConnections (part_000 lines 218-222).
ExchangeResponse(i) ==
  /\ cmd = "login"
  /\ tasks[i].pc = "awaitExchange"
  /\ \/ /\ Settle(i, Throw(tasks[i], "TokenExchangeFailed"))
        /\ lastGrant' = NoGrant
        /\ lastError' = NoApiError
        /\ UNCHANGED store
     \/ \E resp \in TokenResponses :
        \E nanOk \in IF resp.expires_in.nan THEN BOOLEAN ELSE {TRUE} :
          LET w == exchangeGrantWrites(store, resp, now, nanOk)
              tk == IF w.ok
                    THEN getConnections([tasks[i] EXCEPT !.exchanged = TRUE],
                                        w.store, now)
                    ELSE Throw(tasks[i], "TokenExchangeFailed")
          IN  /\ store' = w.store
              /\ lastGrant' = [kind |-> "exchange", ok |-> w.ok,
                               pre |-> store, resp |-> resp]
              /\ lastError' = NoApiError
              /\ Settle(i, tk)
  /\ UNCHANGED <<now, ticks, ncmds, nreq>>

\* A faulty variant: the last organisation of the list is taken.
selectTenantLast(st, list) ==
  IF Len(list) > 0 THEN [st EXCEPT !.tenantId = list[Len(list)]] ELSE st

\* The tenant selection of the login handler (part_000 lines 225-236).
selectTenant(st, list) ==
  IF Len(list) > 0 THEN [st EXCEPT !.tenantId = list[1]] ELSE st

\* GET /connections answers (getConnections lines 107-110), and the caller
\* finishes: the login handler selects the tenant (part_000 lines 223-247),
\* `auth status` only prints the list (lines 266-274).
ConnectionsResponse(i) ==
  /\ tasks[i].pc = "awaitConnections"
  /\ \/ \E list \in ConnectionLists :
          /\ store' = IF tasks[i].kind = "callback"
                      THEN selectTenant(store, list) ELSE store
          /\ Settle(i, [tasks[i] EXCEPT !.pc = "done", !.result = "ok",
                                        !.connections = list])
          /\ lastError' = NoApiError
     \/ \E status \in ConnectionStatuses \ {200} :
          LET error == [response |-> status, request |-> TRUE, data |-> NoBody]
              thrown == handleApiError(error)
          IN  /\ Settle(i, Throw(tasks[i], thrown.tag))
              /\ lastError' = [task |-> i, error |-> error, thrown |-> thrown]
              /\ UNCHANGED store
  /\ lastGrant' = NoGrant
  /\ UNCHANGED <<now, ticks, ncmds, nreq>>

\* The login process ends after a resolved login: the action returns, the
\* server is closed, and the process ends with status 0 once no handler has
\* a call outstanding.
LoginExit ==
  /\ cmd = "login"
  /\ promise = "resolved"
  /\ \A i \in TaskIds : tasks[i].pc \in {"idle", "done"}
  /\ cmd' = "none"
  /\ exitCode' = 0
  /\ lastGrant' = NoGrant
  /\ lastError' = NoApiError
  /\ UNCHANGED <<store, now, ticks, ncmds, tasks, server, promise, loginError,
                 nreq>>

Next ==
  \/ Tick
  \/ ConfigSet
  \/ ConfigShow
  \/ ResourceCommand
  \/ StatusCommand
  \/ LoginCommand
  \/ LoginBindError
  \/ CallbackRequest
  \/ LoginExit
  \/ \E i \in TaskIds : ExchangeResponse(i)
  \/ \E i \in TaskIds : ConnectionsResponse(i)
  \/ \E i \in TaskIds : RefreshResponse(i)
  \/ \E i \in TaskIds : ResourceResponse(i)

Spec == Init /\ [][Next]_vars

\* The program when every outbound HTTP call is eventually answered or
\* fails: a call chain that waits for a response eventually gets its step.
\* Nothing makes a request reach the listener, the user start a command or
\* the clock matter.
FairSpec ==
  /\ Spec
  /\ \A i \in TaskIds :
       /\ WF_vars(ExchangeResponse(i))
       /\ WF_vars(ConnectionsResponse(i))
       /\ WF_vars(RefreshResponse(i))
       /\ WF_vars(ResourceResponse(i))

\* ------------------------------------------------------------ properties
ApiTasks == {i \in TaskIds : tasks[i].kind = "api"}
CallbackTasks == {i \in TaskIds : tasks[i].kind = "callback"}
RefreshErrors == {"NoRefreshToken", "TokenRefreshFailed"}

\* C1: every apiRequest call resolves its token once.  With a valid stored
\* token it makes no refresh and no token-endpoint request, and the resource
\* request carries the cached accessToken.  With a stale one it calls
\* refreshAccessToken exactly once (at most one token-endpoint request), and
\* the resource request carries the token that refresh returned.  A failed
\* refresh fails the call (exit status 1) with no resource request sent.  The
\* resource request itself goes out exactly when a tenantId is stored.
C1_TokenResolvedOnce ==
  \A i \in ApiTasks :
    LET tk == tasks[i] IN
    /\ tk.valid =>
         /\ tk.refreshCalls = 0 /\ tk.tokenReqs = 0
         /\ tk.resReqs = (IF Truthy(tk.pre.tenantId) THEN 1 ELSE 0)
         /\ tk.resReqs = 1 => tk.bearer = tk.pre.accessToken
    /\ ~tk.valid =>
         /\ tk.refreshCalls = 1 /\ tk.tokenReqs <= 1
         /\ tk.resReqs <= 1
         /\ tk.resReqs = 1 =>
              /\ tk.refreshed # Undefined
              /\ tk.bearer = tk.refreshed
         /\ (tk.refreshed # Undefined /\ Truthy(tk.pre.tenantId)) =>
              tk.resReqs = 1
    /\ tk.result \in RefreshErrors =>
         /\ tk.pc = "done" /\ tk.resReqs = 0
         /\ cmd = "none" /\ exitCode = 1

C1_Witness ==
  \E i \in ApiTasks :
    /\ ~tasks[i].valid /\ tasks[i].pre.accessToken = "AT1"
    /\ tasks[i].refreshCalls = 1 /\ tasks[i].tokenReqs = 1
    /\ tasks[i].refreshed = "AT2" /\ tasks[i].bearer = "AT2"
    /\ tasks[i].pc = "done" /\ tasks[i].result = "ok"

\* C2 as claimed: with no tenantId stored, apiRequest fails with the
\* no-tenant error and issues no network call of any kind.
C2_NoNetworkCallWithoutTenant ==
  \A i \in ApiTasks :
    ~Truthy(tasks[i].pre.tenantId) =>
      /\ tasks[i].tokenReqs = 0 /\ tasks[i].resReqs = 0
      /\ tasks[i].pc = "done" => tasks[i].result = "NoTenant"

\* C2 as amended: with no tenantId stored, apiRequest never issues a resource
\* request and always fails.  With a valid stored token it fails with the
\* no-tenant error at once, with no network call.  With a stale or absent
\* token the refresh comes first: it fails with the refresh error when the
\* refresh fails, and with the no-tenant error after a successful refresh.
C2_NoResourceCallWithoutTenant ==
  \A i \in ApiTasks :
    LET tk == tasks[i] IN
    ~Truthy(tk.pre.tenantId) =>
      /\ tk.resReqs = 0
      /\ tk.result # "ok"
      /\ tk.pc = "done" => tk.result \in RefreshErrors \cup {"NoTenant"}
      /\ tk.valid => tk.pc = "done" /\ tk.result = "NoTenant" /\ tk.tokenReqs = 0
      /\ tk.refreshed # Undefined => tk.pc = "done" /\ tk.result = "NoTenant"
      /\ (tk.pc = "done" /\ tk.result = "NoTenant" /\ ~tk.valid) =>
           tk.tokenReqs = 1

C2_Witness ==
  \E i \in ApiTasks :
    /\ ~Truthy(tasks[i].pre.tenantId)
    /\ tasks[i].tokenReqs = 1 /\ tasks[i].refreshed = "AT2"
    /\ tasks[i].pc = "done" /\ tasks[i].result = "NoTenant"

\* C3: the validity check is true exactly when the stored accessToken is
\* non-empty and tokenExpiry - now exceeds 60000 ms; every apiRequest has
\* taken the branch the check gave for the store and time it started with.
C3_ValidIffBeyondMargin ==
  /\ hasValidToken(store, now) <=>
       /\ store.accessToken # ""
       /\ JsGt(JsSub(store.tokenExpiry, Num(now)), Num(ValidityMarginMs))
  /\ \A i \in ApiTasks :
       /\ tasks[i].pre.accessToken = "" => ~tasks[i].valid
       /\ tasks[i].valid =>
            JsGt(JsSub(tasks[i].pre.tokenExpiry, Num(tasks[i].startedAt)),
                 Num(ValidityMarginMs))
       /\ (/\ tasks[i].pre.accessToken # ""
           /\ JsGt(JsSub(tasks[i].pre.tokenExpiry, Num(tasks[i].startedAt)),
                   Num(ValidityMarginMs))) => tasks[i].valid

C3_Witness ==
  \E i \in ApiTasks :
    /\ tasks[i].pre.accessToken # ""
    /\ tasks[i].pre.tokenExpiry = Num(tasks[i].startedAt + ValidityMarginMs)
    /\ ~tasks[i].valid /\ tasks[i].refreshCalls = 1

\* C4: a refresh grant that succeeds leaves the stored refreshToken as it
\* was when the response carries no refresh_token, and sets it to the
\* response's value when it carries one.
C4_RefreshTokenKeptOrRotated ==
  (lastGrant.kind = "refresh" /\ lastGrant.ok) =>
    store.refreshToken =
      (IF Truthy(lastGrant.resp.refresh_token)
       THEN lastGrant.resp.refresh_token
       ELSE lastGrant.pre.refreshToken)

C4_Witness ==
  /\ lastGrant.kind = "refresh" /\ lastGrant.ok
  /\ lastGrant.resp.refresh_token = Undefined
  /\ lastGrant.pre.refreshToken = "RT1"
  /\ store.refreshToken = "RT1"
  /\ store.accessToken = "AT2"

\* C5: after a successful authorization-code exchange the store holds the
\* response's access_token and refresh_token, whatever it held before, and
\* tokenExpiry = the time of the exchange + expires_in * 1000.
C5_ExchangeOverwrites ==
  (lastGrant.kind = "exchange" /\ lastGrant.ok) =>
    /\ store.accessToken = lastGrant.resp.access_token
    /\ store.refreshToken = lastGrant.resp.refresh_token
    /\ IF lastGrant.resp.expires_in.nan
       THEN store.tokenExpiry.nan
       ELSE store.tokenExpiry = Num(now + lastGrant.resp.expires_in.v * 1000)

C5_Witness ==
  /\ lastGrant.kind = "exchange" /\ lastGrant.ok
  /\ lastGrant.pre.accessToken = "AT1" /\ lastGrant.pre.refreshToken = "RT1"
  /\ store.accessToken = "AT2" /\ store.refreshToken = "RT2"
  /\ store.tokenExpiry = Num(now + 61000)
  /\ now > 0

\* The stored token triple, and the triple a grant's response asks for.
TokenTriple(st) == <<st.accessToken, st.refreshToken, st.tokenExpiry>>

UpdatedTriple(g, t) ==
  <<g.resp.access_token,
    IF g.kind = "refresh" /\ ~Truthy(g.resp.refresh_token)
    THEN g.pre.refreshToken ELSE g.resp.refresh_token,
    JsAdd(Num(t), JsMul(g.resp.expires_in, Num(MsPerSecond)))>>

\* C6 as claimed: whatever the outcome of a grant, the stored triple
\* (accessToken, refreshToken, tokenExpiry) is afterwards either the triple
\* from before the call or the fully updated one.
C6_GrantUpdateAtomic ==
  lastGrant.kind # "none" =>
    \/ TokenTriple(store) = TokenTriple(lastGrant.pre)
    \/ TokenTriple(store) = UpdatedTriple(lastGrant, now)

\* C7 as claimed: a login accepts one /callback request; no second token
\* exchange is started and no second terminal outcome (response, close,
\* settle) is produced, whenever the later requests arrive.
C7_OneCallbackAccepted ==
  /\ Cardinality({i \in CallbackTasks : tasks[i].code # Null}) <= 1
  /\ Cardinality({i \in CallbackTasks : tasks[i].pc = "done"}) <= 1

\* What a /callback request carried, and the handler's two early returns.
HasError(tk) == Truthy(tk.reqError)
HasCodeOnly(tk) == Truthy(tk.reqCode) /\ ~Truthy(tk.reqError)

CallbackEarlyFailures(tk) ==
  /\ HasError(tk) =>
       /\ tk.pc = "done" /\ tk.http = 400
       /\ tk.code = Null /\ tk.tokenReqs = 0
       /\ promise = "rejected"
       /\ loginError = [tag |-> "OAuthError", detail |-> tk.reqError]
  /\ (~HasError(tk) /\ ~Truthy(tk.reqCode)) =>
       /\ tk.pc = "done" /\ tk.http = 400
       /\ tk.code = Null /\ tk.tokenReqs = 0
       /\ promise = "rejected"
       /\ loginError = [tag |-> "NoCode", detail |-> ""]

\* C8 as claimed: a /callback request with `error` ends the login Failed with
\* the error surfaced and no exchange attempted; one with `code` and no
\* `error` ends it Completed with that code handed to the exchange; one with
\* neither ends it Failed with 'No authorization code received' and a 400.
C8_CodeCompletesLogin ==
  \A i \in CallbackTasks :
    /\ CallbackEarlyFailures(tasks[i])
    /\ HasCodeOnly(tasks[i]) =>
         /\ tasks[i].code = tasks[i].reqCode
         /\ tasks[i].pc = "done" => promise = "resolved"

\* C8 as amended: the two early failures are as claimed.  A /callback request
\* with `code` and no `error` hands that exact code to the token exchange and
\* the listener stays open until its handler finishes; the first handler to
\* finish decides the outcome: Completed with a 200 when its exchange and
\* connections call both succeeded, Failed with a 500 and that error when
\* either failed.
C8_CodeExchangedThenDecided ==
  /\ \A i \in CallbackTasks :
       LET tk == tasks[i] IN
       /\ CallbackEarlyFailures(tk)
       /\ HasCodeOnly(tk) =>
            /\ tk.code = tk.reqCode /\ tk.tokenReqs >= 1
            /\ tk.pc = "awaitExchange" => ~tk.exchanged
            /\ tk.pc = "done" =>
                 /\ promise # "pending" /\ server = "closed"
                 /\ tk.http = (IF tk.result = "ok" THEN 200 ELSE 500)
                 /\ tk.result = "ok" => tk.exchanged /\ tk.connReqs = 1
                 /\ tk.settled =>
                      IF tk.result = "ok" THEN promise = "resolved"
                      ELSE /\ promise = "rejected"
                           /\ loginError = [tag |-> tk.result, detail |-> ""]
  /\ promise = "resolved" =>
       \E i \in CallbackTasks :
         tasks[i].settled /\ tasks[i].result = "ok" /\ HasCodeOnly(tasks[i])
  /\ Cardinality({i \in CallbackTasks : tasks[i].settled}) <= 1

C8_Witness ==
  \E i \in CallbackTasks :
    /\ tasks[i].reqCode = "abc123" /\ tasks[i].reqError = Null
    /\ tasks[i].code = "abc123"
    /\ tasks[i].pc = "done" /\ tasks[i].settled
    /\ tasks[i].result = "TokenExchangeFailed"
    /\ promise = "rejected"

C10_PartialSuccessReported ==
  \A i \in CallbackTasks :
    (/\ tasks[i].exchanged /\ tasks[i].connReqs = 1
     /\ tasks[i].pc = "done" /\ tasks[i].result # "ok"
     /\ tasks[i].settled) =>
      /\ store.accessToken # ""
      /\ store.tenantId = ""
      /\ promise # "rejected"

\* The call chains of the one-call commands: resource commands, auth status.
StatusTasks == {i \in TaskIds : tasks[i].kind = "status"}
ExecutorTasks == ApiTasks \cup StatusTasks

\* C11: no token-endpoint request, of either grant, is issued while clientId
\* or clientSecret is empty, on any command path: every request sent carried
\* Basic credentials built from a non-empty clientId and clientSecret, and
\* while one is outstanding both are stored.  `auth status` and the refresh
\* grant check neither; they are covered because the store never holds a
\* token without both client credentials.
C11_NoTokenRequestUnconfigured ==
  /\ \A i \in TaskIds :
       /\ tasks[i].tokenReqs > 0 =>
            /\ tasks[i].basic # NoBasic
            /\ Truthy(tasks[i].basic[1]) /\ Truthy(tasks[i].basic[2])
       /\ tasks[i].tokenReqs = 0 => tasks[i].basic = NoBasic
       /\ tasks[i].pc \in {"awaitRefresh", "awaitExchange"} =>
            isConfigured(store)
  /\ (store.accessToken # "" \/ store.refreshToken # "") => isConfigured(store)
  /\ (cmd \in {"login", "resource"}) => isConfigured(store)

C11_Witness ==
  \E i \in StatusTasks :
    /\ ~isConfigured(tasks[i].pre) /\ store = tasks[i].pre
    /\ tasks[i].refreshCalls = 1 /\ tasks[i].tokenReqs = 0
    /\ tasks[i].pc = "done" /\ exitCode = 1

\* C12: refreshAccessToken called with an empty stored refreshToken fails
\* with the no-refresh-token error, issues no network call of any kind and
\* leaves the store as it found it; the error is raised in no other case.
C12_NoRefreshTokenFailsLocally ==
  \A i \in ExecutorTasks :
    LET tk == tasks[i] IN
    /\ (tk.refreshCalls = 1 /\ ~Truthy(tk.pre.refreshToken)) =>
         /\ tk.pc = "done" /\ tk.result = "NoRefreshToken"
         /\ tk.tokenReqs = 0 /\ tk.connReqs = 0 /\ tk.resReqs = 0
         /\ tk.basic = NoBasic
         /\ store = tk.pre
         /\ cmd = "none" /\ exitCode = 1
    /\ tk.result = "NoRefreshToken" =>
         tk.refreshCalls = 1 /\ ~Truthy(tk.pre.refreshToken)

C12_Witness ==
  \E i \in ApiTasks :
    /\ tasks[i].pre.accessToken = "AT1" /\ tasks[i].pre.refreshToken = ""
    /\ tasks[i].pre.tenantId = "T1"
    /\ tasks[i].result = "NoRefreshToken" /\ tasks[i].tokenReqs = 0
    /\ store = tasks[i].pre

\* C13 as claimed: a token refresh that fails inside the executor leaves every
\* stored field as it was before the call: clientId, clientSecret,
\* accessToken, refreshToken, tokenExpiry and tenantId.
C13_FailedRefreshChangesNothing ==
  \A i \in ExecutorTasks :
    tasks[i].result \in RefreshErrors => store = tasks[i].pre

\* The statuses with an error class of their own, and the first of the
\* upstream detail/message fields that is there, else the serialized body.
NamedStatuses == {401, 403, 404, 429}
FirstPresent(data) ==
  LET present == SelectSeq(<<data.Detail, data.Message, data.message>>, Truthy)
  IN  IF present = <<>> THEN "<json>" ELSE Head(present)

\* The class of a transport outcome when there are six classes only.
ClaimedClass(e) ==
  CASE e.response = 401 -> "AuthenticationFailed"
    [] e.response = 403 -> "AccessForbidden"
    [] e.response = 404 -> "ResourceNotFound"
    [] e.response = 429 -> "RateLimitExceeded"
    [] e.response \notin NamedStatuses \cup {0} -> "ApiError"
    [] OTHER -> "NoResponse"

\* The classes that hold for every outcome with a response, or with a request
\* that was sent.
ClassifiedAsClaimed(e, t) ==
  /\ e.response = 401 =>
       t.tag = "AuthenticationFailed" /\ t.text = "Run: xero auth login"
  /\ e.response = 403 => t.tag = "AccessForbidden"
  /\ e.response = 404 => t.tag = "ResourceNotFound"
  /\ e.response = 429 =>
       t.tag = "RateLimitExceeded" /\ t.text = "Please wait before retrying."
  /\ e.response \notin NamedStatuses \cup {0} =>
       /\ t.tag = "ApiError" /\ t.status = e.response
       /\ t.text = FirstPresent(e.data)
  /\ (e.response = 0 /\ e.request) => t.tag = "NoResponse"

\* The failed call of the step just taken ended its chain with the error
\* raised for it, and gave its caller no value.
FailureRaised ==
  lastError.thrown.tag # "none" =>
    /\ lastError.thrown = handleApiError(lastError.error)
    /\ tasks[lastError.task].pc = "done"
    /\ tasks[lastError.task].result = lastError.thrown.tag
    /\ tasks[lastError.task].result # "ok"
    /\ tasks[lastError.task].kind \in {"api", "status"} =>
         cmd = "none" /\ exitCode = 1

\* C14 as claimed: every failed request raises exactly one of six errors, by
\* its transport outcome: the authentication error for 401, the permission
\* error for 403, the not-found error for 404, the rate-limit error for 429,
\* the API error for any other non-2xx status, and the network error when
\* there is no response at all; it never returns a value.
C14_SixClassesForEveryFailure ==
  /\ FailureRaised
  /\ lastError.thrown.tag # "none" =>
       lastError.thrown.tag = ClaimedClass(lastError.error)

\* C14 as amended: the classifier is a total function of the transport
\* outcome.  A response with status 401, 403, 404 or 429 gives the
\* authentication (re-login), permission, not-found or rate-limit (wait
\* before retrying) error; any other non-2xx status gives the API error with
\* that status and the first non-empty of Detail, Message, message, else the
\* serialized body; a request that was sent and got no response gives the
\* network error; a failure raised before any request was sent is raised
\* again as it is, in none of those classes.  Every failed request raises
\* exactly one error and never returns a value.
C14_ClassifierTotal ==
  /\ \A e \in TransportErrors :
       LET t == handleApiError(e) IN
       /\ ClassifiedAsClaimed(e, t)
       /\ (e.response = 0 /\ ~e.request) => t.tag = "Rethrown"
       /\ t.tag \in {"AuthenticationFailed", "AccessForbidden",
                     "ResourceNotFound", "RateLimitExceeded", "ApiError",
                     "NoResponse", "Rethrown"}
  /\ FailureRaised
  /\ lastError.thrown.tag # "none" => lastError.error \in TransportErrors

C14_Witness ==
  /\ lastError.error.response = 500
  /\ lastError.error.data =
       [Detail |-> Undefined, Message |-> "m", message |-> "e"]
  /\ lastError.thrown = Raise("ApiError", 500, "m")
  /\ tasks[1].kind = "api" /\ tasks[1].resReqs = 1
  /\ tasks[1].pc = "done" /\ tasks[1].result = "ApiError"
  /\ exitCode = 1

\* C15: every executor call issues at most one token-endpoint request and at
\* most one resource request, whatever the outcome.  At most one of them is
\* outstanding, the token request comes first, and a call that has failed,
\* with a 401, a 429 or anything else, is over: the command has ended and the
\* call issues no refresh, no second request and no other retry.
C15_NoRetry ==
  /\ [](\A i \in ExecutorTasks :
          LET tk == tasks[i] IN
          /\ tk.tokenReqs <= 1 /\ tk.refreshCalls <= 1
          /\ tk.resReqs + tk.connReqs <= 1
          /\ tk.pc = "awaitRefresh" =>
               tk.tokenReqs = 1 /\ tk.resReqs + tk.connReqs = 0
          /\ tk.pc \in {"awaitResource", "awaitConnections"} =>
               tk.resReqs + tk.connReqs = 1
          /\ tk.pc \in {"done", "awaitRefresh", "awaitResource",
                         "awaitConnections"}
          /\ tk.pc = "done" => cmd = "none" /\ tk.result # "none"
          /\ (lastError.task = i /\ lastError.thrown.tag # "none") =>
               /\ tk.pc = "done" /\ tk.result = lastError.thrown.tag
               /\ tk.resReqs + tk.connReqs = 1)
  /\ [][\A i \in TaskIds :
          (tasks[i].kind \in {"api", "status"} /\ tasks[i].pc = "done"
           /\ ncmds' = ncmds) => tasks'[i] = tasks[i]]_vars

C15_Witness ==
  \E i \in ApiTasks :
    /\ lastError.task = i /\ lastError.error.response = 429
    /\ tasks[i].tokenReqs = 1 /\ tasks[i].refreshed = "AT2"
    /\ tasks[i].resReqs = 1
    /\ tasks[i].pc = "done" /\ tasks[i].result = "RateLimitExceeded"
    /\ cmd = "none" /\ exitCode = 1

\* C16 as claimed: an error raised in any command, auth login included,
\* ends the process with a non-zero exit status; no command ends with status
\* 0 after a call chain of its own has failed.
C16_ErrorsExitNonZero ==
  (cmd = "none" /\ exitCode = 0) =>
    /\ loginError = NoError
    /\ \A i \in TaskIds : tasks[i].result \in {"none", "ok"}

\* The step in which callback handler i gets its connections list and ends
\* with success.
ConnectionsSucceed(i) ==
  /\ tasks[i].kind = "callback" /\ tasks[i].pc = "awaitConnections"
  /\ tasks'[i].pc = "done" /\ tasks'[i].result = "ok"

\* C17: a login handler whose exchange and connections call both succeeded
\* stores the tenantId of the first element of the returned list when the
\* list is non-empty, whatever tenantId was stored and however long the list
\* is, and leaves tenantId as it was when the list is empty; nothing else in
\* the store changes in that step, and during a login tenantId changes in no
\* other step.
C17_FirstTenantSelected ==
  /\ [][\A i \in TaskIds :
          ConnectionsSucceed(i) =>
            /\ tasks[i].exchanged
            /\ store'.tenantId =
                 (IF Len(tasks'[i].connections) > 0
                  THEN Head(tasks'[i].connections) ELSE store.tenantId)
            /\ store' = [store EXCEPT !.tenantId = store'.tenantId]]_vars
  /\ [][(cmd = "login" /\ store'.tenantId # store.tenantId) =>
          \E i \in TaskIds : ConnectionsSucceed(i)]_vars
  /\ [](\A i \in CallbackTasks :
          (/\ tasks[i].pc = "done" /\ tasks[i].result = "ok"
           /\ Len(tasks[i].connections) > 0
           /\ Cardinality({j \in CallbackTasks : tasks[j].exchanged}) = 1) =>
            store.tenantId = Head(tasks[i].connections))

C17_Witness ==
  \E i \in CallbackTasks :
    /\ tasks[i].pc = "done" /\ tasks[i].result = "ok" /\ tasks[i].settled
    /\ tasks[i].connections = <<"T2", "T1">>
    /\ store.tenantId = "T2"
    /\ promise = "resolved" /\ cmd = "none" /\ exitCode = 0

ShowTasks == {i \in TaskIds : tasks[i].kind = "show"}

\* C18 as claimed: every place that decides whether the stored access token
\* is still fresh uses the same predicate: what `config show` displays for a
\* store and time agrees with the validity check of the request layer.
C18_SameFreshnessEverywhere ==
  \A i \in ShowTasks :
    tasks[i].shown # "none" =>
      ((tasks[i].shown = "valid") <=>
         hasValidToken(tasks[i].pre, tasks[i].startedAt))

\* C19 as claimed: at every moment of a command at most one token-endpoint
\* request and at most one resource or connections request is outstanding,
\* also during a login in which several requests reach the listener.
C19_OneOutstandingCall ==
  /\ Cardinality({i \in TaskIds :
                    tasks[i].pc \in {"awaitExchange", "awaitRefresh"}}) <= 1
  /\ Cardinality({i \in TaskIds :
                    tasks[i].pc \in {"awaitConnections", "awaitResource"}}) <= 1

\* C20: the steps of every login handler are ordered.  Its connections
\* request is issued only after its code exchange has succeeded and the
\* tokens are stored; tenantId is written only in the step in which a
\* connections call returns successfully; the login is resolved, with the
\* listener closed, only in such a step; and a handler whose exchange fails
\* makes no connections request and writes no tenantId.
C20_LoginStepsOrdered ==
  /\ [](\A i \in CallbackTasks :
          LET tk == tasks[i] IN
          /\ tk.connReqs <= 1
          /\ tk.connReqs = 1 => tk.exchanged /\ tk.tokenReqs >= 1
          /\ tk.result = "ok" => tk.exchanged /\ tk.connReqs = 1
          /\ ~tk.exchanged =>
               /\ tk.connReqs = 0 /\ tk.connections = <<>>
               /\ tk.pc \notin {"awaitRefresh", "awaitConnections"}
               /\ tk.result # "ok")
  /\ [](promise = "resolved" =>
          /\ server = "closed"
          /\ \E j \in CallbackTasks :
               /\ tasks[j].result = "ok" /\ tasks[j].connReqs = 1
               /\ tasks[j].exchanged)
  /\ [][\A i \in TaskIds :
          (tasks[i].kind \in {"none", "callback"} /\ tasks'[i].kind = "callback"
           /\ tasks[i].connReqs = 0 /\ tasks'[i].connReqs = 1) =>
            /\ tasks'[i].exchanged
            /\ store'.accessToken # ""
            /\ tasks'[i].bearer = store'.accessToken]_vars
  /\ [][(cmd = "login" /\ store'.tenantId # store.tenantId) =>
          \E i \in TaskIds : ConnectionsSucceed(i)]_vars
  /\ [][(promise # "resolved" /\ promise' = "resolved") =>
          /\ server' = "closed"
          /\ \E i \in TaskIds : ConnectionsSucceed(i)]_vars
  /\ [][\A i \in TaskIds :
          (tasks[i].pc = "awaitExchange" /\ tasks'[i].pc = "done") =>
            /\ tasks'[i].result = "TokenExchangeFailed"
            /\ tasks'[i].connReqs = 0
            /\ store'.tenantId = store.tenantId]_vars

C20_Witness ==
  \E i \in CallbackTasks :
    /\ tasks[i].exchanged /\ tasks[i].tokenReqs = 1 /\ tasks[i].connReqs = 1
    /\ tasks[i].bearer = "AT2" /\ store.accessToken = "AT2"
    /\ tasks[i].pc = "done" /\ tasks[i].result = "ok"
    /\ store.tenantId = "T2"
    /\ server = "closed" /\ promise = "resolved"

\* The login promise has been settled: Completed or Failed.
LoginSettled == promise \in {"resolved", "rejected"}

\* A login handler finishes in this step.
HandlerFinishes ==
  \E i \in TaskIds :
    /\ tasks'[i].kind = "callback"
    /\ tasks'[i].pc = "done"
    /\ tasks[i].pc # "done"

\* C21: login termination.  When every outbound call is answered, a login
\* that has received a /callback request is eventually Completed or Failed
\* with the listener closed, and a settled login never has its listener
\* open.  A bind failure makes the login Failed with a ListenerError and ends
\* the process, and the listener is not bound again by that process.  A
\* pending login keeps its process running and its listener open, and is
\* settled only in a step in which a /callback handler finishes or the
\* listener fails: the passing of time never settles it.
C21_LoginTerminates ==
  /\ (promise = "pending" /\ CallbackTasks # {})
       ~> (LoginSettled /\ server = "closed")
  /\ [](LoginSettled => server \in {"closed", "error"})
  /\ [](server = "error" =>
          /\ promise = "rejected" /\ loginError.tag = "ListenerError"
          /\ cmd = "none" /\ exitCode = 1)
  /\ [][server = "error" => server' = "error" \/ ncmds' = ncmds + 1]_vars
  /\ [](promise = "pending" => cmd = "login" /\ server = "listening")
  /\ [][(promise = "pending" /\ promise' # "pending") =>
          \/ HandlerFinishes
          \/ server' = "error"]_vars
  /\ [][(promise = "pending" /\ now' # now) => promise' = "pending"]_vars

C21_Witness ==
  \E i \in CallbackTasks :
    /\ tasks[i].pc = "done" /\ tasks[i].result = "TokenExchangeFailed"
    /\ tasks[i].tokenReqs = 1 /\ tasks[i].settled
    /\ promise = "rejected" /\ loginError.tag = "TokenExchangeFailed"
    /\ server = "closed" /\ cmd = "none" /\ exitCode = 1

\* C21, the bind failure: the login has failed before any request arrived.
C21_BindFailureWitness ==
  /\ server = "error" /\ promise = "rejected" /\ nreq = 0
  /\ loginError.tag = "ListenerError" /\ exitCode = 1

\* C22: the frame of the token and request layer.  clientId and
\* clientSecret change only in a `config set` step, so no exchange, refresh,
\* connections or resource call, successful or failed, touches them; tenantId
\* changes only in a `config set` step or in the step in which a login
\* handler's connections call returns a non-empty list, and then to that
\* list's first organisation; the steps of a resource command and of
\* `auth status` leave all three as they were.
C22_CredentialsFramed ==
  /\ [][(\/ store'.clientId # store.clientId
         \/ store'.clientSecret # store.clientSecret) => ConfigSet]_vars
  /\ [][store'.tenantId # store.tenantId =>
          \/ ConfigSet
          \/ \E i \in TaskIds :
               /\ ConnectionsSucceed(i)
               /\ tasks'[i].connections # <<>>
               /\ store'.tenantId = tasks'[i].connections[1]]_vars
  /\ [][(cmd \in {"resource", "status"} \/ cmd' \in {"resource", "status"}) =>
          /\ store'.clientId = store.clientId
          /\ store'.clientSecret = store.clientSecret
          /\ store'.tenantId = store.tenantId]_vars

C22_Witness ==
  \E i \in ApiTasks :
    /\ tasks[i].pc = "done" /\ tasks[i].result = "ok"
    /\ tasks[i].refreshCalls = 1 /\ tasks[i].resReqs = 1
    /\ store.accessToken # tasks[i].pre.accessToken
    /\ store.clientId = tasks[i].pre.clientId
    /\ store.clientSecret = tasks[i].pre.clientSecret
    /\ store.tenantId = tasks[i].pre.tenantId

====
